---------------------------- MODULE Spec2Model ----------------------------
(***************************************************************************)
(* Model of the compile_commands.json generator (src/src/main.rs).         *)
(*                                                                         *)
(* A String of the program is a sequence of one-character strings, so that *)
(* format!, String::contains and glob matching are computed character by   *)
(* character. An Option<T> is a sequence of length 0 (None) or 1 (Some).   *)
(***************************************************************************)
EXTENDS Integers, Sequences, FiniteSets, TLC

-----------------------------------------------------------------------------
(* Bounds of the explored inputs.                                          *)

\* longest list of a configuration (patterns, include folders, flags)
MaxLen == 2
\* most workspaces of a configuration
MaxWs == 2

-----------------------------------------------------------------------------
(* Strings.                                                                *)

Empty == << >>
Slash == <<"/">>

\* String::contains(needle)
Contains(s, needle) ==
    \E i \in 0..(Len(s) - Len(needle)) :
        \A k \in 1..Len(needle) : s[i + k] = needle[k]

Range(s) == {s[i] : i \in DOMAIN s}

\* every sequence over pool of length at most n
SeqsUpTo(pool, n) == UNION {[1..k -> pool] : k \in 0..n}

\* snailquote::unescape(..).unwrap_or_default() on a string without
\* backslashes and with balanced quotes: the quote characters delimit a
\* quoted section and are dropped, every other character is kept.
Unescape(s) == SelectSeq(s, LAMBDA c : c \notin {"\"", "'"})

-----------------------------------------------------------------------------
(* The file system the run sees, in the order glob walks it: the entries   *)
(* of a directory sorted by name, a directory before its content.          *)

FILESYSTEM ==
    << <<"/","p">>,
       <<"/","p","/","v">>,
       <<"/","p","/","v","/","e",".","c","x","x">>,
       <<"/","p","/","v","/","x",".","c","c">>,
       <<"/","p","/","v","/","x",".","c","c","/","b",".","c">>,
       <<"/","p","/","w">>,
       <<"/","p","/","w","/","a",".","c">>,
       <<"/","p","/","w","/","a",".","c","p","p">>,
       <<"/","p","/","w","/","a",".","c","p","p",".","c">>,
       <<"/","p","/","w","/","b",".","C","C">>,
       <<"/","p","/","w","/","m">>,
       <<"/","p","/","w","/","s">>,
       <<"/","p","/","w","/","s","/","d",".","c">> >>

DIRECTORIES ==
    { <<"/","p">>,
      <<"/","p","/","v">>,
      <<"/","p","/","v","/","x",".","c","c">>,
      <<"/","p","/","w">>,
      <<"/","p","/","w","/","s">> }

-----------------------------------------------------------------------------
(* glob::glob                                                              *)

\* Pattern::new fails on a '[' that no ']' closes
PatternInvalid(p) ==
    \E i \in DOMAIN p :
        /\ p[i] = "["
        /\ ~ \E j \in (i + 2)..Len(p) : p[j] = "]"

IsWild(c) == c \in {"*", "?", "["}

\* a path matches a pattern component by component: '*' and '?' never
\* match the separator
RECURSIVE GlobMatch(_, _)
GlobMatch(p, s) ==
    IF p = << >> THEN s = << >>
    ELSE IF Head(p) = "*"
         THEN \/ GlobMatch(Tail(p), s)
              \/ (s # << >> /\ Head(s) # "/" /\ GlobMatch(p, Tail(s)))
    ELSE IF Head(p) = "?"
         THEN s # << >> /\ Head(s) # "/" /\ GlobMatch(Tail(p), Tail(s))
    ELSE s # << >> /\ Head(s) = Head(p) /\ GlobMatch(Tail(p), Tail(s))

\* the directories glob has to list: for every component of the pattern
\* that holds a wildcard, the directories matching the components before it
\* (a literal component is looked up without listing its parent)
DirsListed(p) ==
    { d \in DIRECTORIES :
        \E j \in DOMAIN p :
            /\ p[j] = "/"
            /\ GlobMatch(SubSeq(p, 1, j - 1), d)
            /\ \E k \in (j + 1)..Len(p) :
                   /\ IsWild(p[k])
                   /\ \A m \in (j + 1)..k : p[m] # "/" }

\* the paths glob yields, in walk order
GlobPaths(p) == SelectSeq(FILESYSTEM, LAMBDA f : GlobMatch(p, f))

-----------------------------------------------------------------------------
(* The configuration document: a JSON object whose keys may be missing.    *)

None == << >>
Some(x) == <<x>>

Str_w == <<"w">>
Str_v == <<"v">>
ProjectRoot == <<"/","p">>
CCompiler == <<"c","c">>
CppCompiler == <<"c","+","+">>

Pat_c == <<"/","*",".","c">>
Pat_cpp == <<"/","*",".","c","p","p">>
Pat_all == <<"/","*">>
Pat_sub_c == <<"/","*","/","*",".","c">>
Pat_cxx == <<"/","*",".","c","x","x">>
Pat_a_c == <<"/","a",".","c">>
Pat_cpp_c == <<"/","*",".","c","p","p",".","c">>
Pat_bad == <<"/","[","c">>

Inc_i == <<"i">>
Inc_j == <<"j">>
Inc_abs == <<"C",":","/","k">>
Flag_O == <<"-","O">>
Flag_g == <<"-","g">>
Flag_W_quoted == <<"\"","-","W","\"">>

\* a JSON value that is not an object answers Null to every key
NullValue ==
    [ c_compiler_path |-> None, cpp_compiler_path |-> None,
      project_root_folder |-> None, project_src_pattern |-> None,
      project_exclude_pattern |-> None, project_include_folders |-> None,
      project_compile_flags |-> None, workspaces |-> None ]

WsJson(folder, src, excl, inc, flags) ==
    [ c_compiler_path |-> None, cpp_compiler_path |-> None,
      folder |-> Some(folder), src_pattern |-> Some(src),
      exclude_pattern |-> Some(excl), include_folders |-> Some(inc),
      compile_flags |-> Some(flags) ]

Doc(src, excl, inc, flags, wss) ==
    [ c_compiler_path |-> Some(CCompiler), cpp_compiler_path |-> Some(CppCompiler),
      project_root_folder |-> Some(ProjectRoot), project_src_pattern |-> Some(src),
      project_exclude_pattern |-> Some(excl), project_include_folders |-> Some(inc),
      project_compile_flags |-> Some(flags), workspaces |-> Some(wss) ]

\* the text of a file: whether serde_json parses it, and to what
Text(value) == [ok |-> TRUE, value |-> value]
Garbage == [ok |-> FALSE, value |-> NullValue]

Ws_w == WsJson(Str_w, <<Pat_c>>, << >>, <<Inc_j>>, <<Flag_g>>)
Ws_v == WsJson(Str_v, <<Pat_sub_c, Pat_cxx>>, << >>, << >>, << >>)
Ws_deep == WsJson(Str_w, <<Pat_a_c, Pat_sub_c>>, <<Pat_cpp>>, << >>, << >>)
Ws_bad == WsJson(Str_v, <<Pat_cxx>>, <<Pat_bad>>, << >>, << >>)
Ws_bare ==
    [ c_compiler_path |-> None, cpp_compiler_path |-> None,
      folder |-> Some(Str_w), src_pattern |-> Some(<<Pat_all>>),
      exclude_pattern |-> None, include_folders |-> None,
      compile_flags |-> None ]

\* documents that vary the match and ignore patterns of one workspace
SelectionDocs ==
    { Doc(rs, rx, << >>, << >>, <<WsJson(Str_w, ws, wx, << >>, << >>)>>) :
        rs \in SeqsUpTo({Pat_c, Pat_all}, MaxLen),
        rx \in {<< >>, <<Pat_a_c>>},
        ws \in SeqsUpTo({Pat_c, Pat_cpp}, MaxLen),
        wx \in {<< >>, <<Pat_cpp_c>>} }

\* documents that vary the include folders and the compile flags
ArgumentDocs ==
    { Doc(<<Pat_c>>, << >>, ri, rf, <<WsJson(Str_w, <<Pat_cpp>>, <<Pat_cpp_c>>, wi, wf)>>) :
        ri \in {<< >>, <<Inc_i>>},
        rf \in SeqsUpTo({Flag_O, Flag_W_quoted}, MaxLen),
        wi \in SeqsUpTo({Inc_j, Inc_abs}, MaxLen),
        wf \in SeqsUpTo({Flag_O}, MaxLen) }

\* documents that vary the workspace list
WorkspaceDocs ==
    { Doc(<<Pat_a_c>>, << >>, <<Inc_i>>, <<Flag_O>>, wss) :
        wss \in SeqsUpTo({Ws_w, Ws_v, Ws_deep, Ws_bad}, MaxWs) }

\* documents with missing parts or an invalid pattern
BrokenDocs ==
    { NullValue,
      [Doc(<<Pat_c>>, << >>, << >>, << >>, << >>) EXCEPT !.workspaces = None],
      [Doc(<<Pat_c>>, << >>, << >>, << >>, <<Ws_bare>>)
          EXCEPT !.c_compiler_path = None, !.project_exclude_pattern = None,
                 !.project_compile_flags = None],
      Doc(<<Pat_bad>>, << >>, << >>, << >>, <<Ws_w>>),
      Doc(<<Pat_c>>, <<Pat_bad>>, << >>, << >>, <<Ws_w>>),
      Doc(<<Pat_bad>>, << >>, << >>, << >>, << >>) }

Documents == SelectionDocs \cup ArgumentDocs \cup WorkspaceDocs \cup BrokenDocs

\* what a run is given: the configuration file (readable or not, with its
\* text) and the directories whose listing fails
Inputs ==
    {[readable |-> TRUE, text |-> Text(d), denied |-> {}] : d \in Documents}
    \cup {[readable |-> TRUE, text |-> Text(d), denied |-> {<<"/","p","/","w","/","s">>}] :
            d \in WorkspaceDocs}
    \cup {[readable |-> FALSE, text |-> Text(d), denied |-> {}] : d \in BrokenDocs}
    \cup {[readable |-> TRUE, text |-> Garbage, denied |-> {}]}

-----------------------------------------------------------------------------
VARIABLES
    input,                               \* the configuration file and file system faults
    pc,                                  \* position of the run
    contents,                            \* run: text read from the configuration file
    json_value,                          \* run: the parsed document
    root_configuration,                  \* ProjectConfiguration.root_configuration
    workspace_configurations,            \* ProjectConfiguration.workspace_configurations
    workspace_index,                     \* from: workspaces the loop has entered
    workspace_entire_include_folders,    \* from: locals of the last iteration
    workspace_entire_compile_flags,
    workspace_entire_src_patterns,
    workspace_entire_exclude_patterns,
    compiled_files_candidate_list,
    compile_commands,                    \* from: the entries built so far
    entry_workspace,                     \* index of the workspace each entry was built for
    output_file,                         \* compile_commands.json
    run_result,                          \* what run() returned
    exit_code,                           \* status of the process, -1 while it runs
    stderr                               \* what was reported on the error stream

vars ==
    << input, pc, contents, json_value, root_configuration,
       workspace_configurations, workspace_index,
       workspace_entire_include_folders, workspace_entire_compile_flags,
       workspace_entire_src_patterns, workspace_entire_exclude_patterns,
       compiled_files_candidate_list, compile_commands, entry_workspace,
       output_file, run_result, exit_code, stderr >>

\* Configuration::default()
DefaultConfiguration ==
    [ c_compiler_path |-> Empty, cpp_compiler_path |-> Empty,
      root_folder |-> Empty, src_pattern |-> << >>, exclude_pattern |-> << >>,
      include_folders |-> << >>, compile_flags |-> << >> ]

\* the file as the run finds it: not touched by this run
Untouched == [created |-> FALSE, bytes |-> << >>, closed |-> FALSE]

Init ==
    /\ input \in Inputs
    /\ pc = "open"
    /\ contents = Garbage
    /\ json_value = NullValue
    /\ root_configuration = DefaultConfiguration
    /\ workspace_configurations = << >>
    /\ workspace_index = 0
    /\ workspace_entire_include_folders = << >>
    /\ workspace_entire_compile_flags = << >>
    /\ workspace_entire_src_patterns = << >>
    /\ workspace_entire_exclude_patterns = << >>
    /\ compiled_files_candidate_list = << >>
    /\ compile_commands = << >>
    /\ entry_workspace = << >>
    /\ output_file = Untouched
    /\ run_result = "none"
    /\ exit_code = -1
    /\ stderr = << >>

-----------------------------------------------------------------------------
(* run: reading the configuration (lines 189-231)                          *)

\* value[key].as_str().unwrap_or_default(), unescaped
StringOf(opt) == IF opt = None THEN Empty ELSE Unescape(opt[1])

\* the strings pushed for value[key].as_array(), none when it is no array
StringsOf(opt) ==
    IF opt = None THEN << >>
    ELSE [i \in DOMAIN opt[1] |-> Unescape(opt[1][i])]

Panic(message) ==
    /\ pc' = "exit"
    /\ exit_code' = 101
    /\ stderr' = Append(stderr, message)

open_project_config_file ==
    /\ pc = "open"
    /\ contents' = IF input.readable THEN input.text ELSE Garbage
    /\ pc' = "build"
    /\ UNCHANGED << input, json_value, root_configuration,
                    workspace_configurations, workspace_index,
                    workspace_entire_include_folders, workspace_entire_compile_flags,
                    workspace_entire_src_patterns, workspace_entire_exclude_patterns,
                    compiled_files_candidate_list, compile_commands, entry_workspace,
                    output_file, run_result, exit_code, stderr >>

build_project_config_json ==
    /\ pc = "build"
    /\ json_value' = IF contents.ok THEN contents.value ELSE NullValue
    /\ pc' = "root"
    /\ UNCHANGED << input, contents, root_configuration,
                    workspace_configurations, workspace_index,
                    workspace_entire_include_folders, workspace_entire_compile_flags,
                    workspace_entire_src_patterns, workspace_entire_exclude_patterns,
                    compiled_files_candidate_list, compile_commands, entry_workspace,
                    output_file, run_result, exit_code, stderr >>

update_root_config_from ==
    /\ pc = "root"
    /\ root_configuration' =
          [ c_compiler_path |-> StringOf(json_value.c_compiler_path),
            cpp_compiler_path |-> StringOf(json_value.cpp_compiler_path),
            root_folder |-> StringOf(json_value.project_root_folder),
            src_pattern |-> StringsOf(json_value.project_src_pattern),
            exclude_pattern |-> StringsOf(json_value.project_exclude_pattern),
            include_folders |-> StringsOf(json_value.project_include_folders),
            compile_flags |-> StringsOf(json_value.project_compile_flags) ]
    /\ pc' = "workspaces"
    /\ UNCHANGED << input, contents, json_value,
                    workspace_configurations, workspace_index,
                    workspace_entire_include_folders, workspace_entire_compile_flags,
                    workspace_entire_src_patterns, workspace_entire_exclude_patterns,
                    compiled_files_candidate_list, compile_commands, entry_workspace,
                    output_file, run_result, exit_code, stderr >>

\* a workspace include folder is put under the workspace folder unless it
\* holds a drive prefix
WorkspaceIncludeFolder(root_folder, folder) ==
    IF Contains(folder, <<"C",":","/">>) THEN folder
    ELSE root_folder \o Slash \o folder

WorkspaceFrom(workspace_json_value) ==
    LET root_folder == StringOf(workspace_json_value.folder)
        folders == StringsOf(workspace_json_value.include_folders)
    IN  [ c_compiler_path |-> StringOf(workspace_json_value.c_compiler_path),
          cpp_compiler_path |-> StringOf(workspace_json_value.cpp_compiler_path),
          root_folder |-> root_folder,
          src_pattern |-> StringsOf(workspace_json_value.src_pattern),
          exclude_pattern |-> StringsOf(workspace_json_value.exclude_pattern),
          include_folders |->
              [i \in DOMAIN folders |-> WorkspaceIncludeFolder(root_folder, folders[i])],
          compile_flags |-> StringsOf(workspace_json_value.compile_flags) ]

\* faulty variant: a missing workspace list read as an empty one (if let Some in
\* place of unwrap)
update_workspace_config_from_NoUnwrap ==
    /\ pc = "workspaces"
    /\ workspace_configurations' =
           IF json_value.workspaces = None THEN << >>
           ELSE [i \in DOMAIN json_value.workspaces[1] |->
                    WorkspaceFrom(json_value.workspaces[1][i])]
    /\ pc' = "from"
    /\ UNCHANGED << input, contents, json_value, root_configuration,
                    workspace_index,
                    workspace_entire_include_folders, workspace_entire_compile_flags,
                    workspace_entire_src_patterns, workspace_entire_exclude_patterns,
                    compiled_files_candidate_list, compile_commands, entry_workspace,
                    output_file, run_result, exit_code, stderr >>

\* value["workspaces"].as_array().unwrap() panics when the key is missing
update_workspace_config_from ==
    /\ pc = "workspaces"
    /\ IF json_value.workspaces = None
       THEN /\ Panic("unwrap on None: workspaces")
            /\ UNCHANGED workspace_configurations
       ELSE /\ workspace_configurations' =
                   [i \in DOMAIN json_value.workspaces[1] |->
                       WorkspaceFrom(json_value.workspaces[1][i])]
            /\ pc' = "from"
            /\ UNCHANGED << exit_code, stderr >>
    /\ UNCHANGED << input, contents, json_value, root_configuration,
                    workspace_index,
                    workspace_entire_include_folders, workspace_entire_compile_flags,
                    workspace_entire_src_patterns, workspace_entire_exclude_patterns,
                    compiled_files_candidate_list, compile_commands, entry_workspace,
                    output_file, run_result >>

-----------------------------------------------------------------------------
(* From<&ProjectConfiguration> for Vec<Value> (lines 113-187)              *)

\* faulty variant: the workspace's list first
Merge_WorkspaceFirst(common, workspace) == workspace \o common

\* common.clone() extended by the workspace's list
Merge(common, workspace) == common \o workspace

IncludeOptions(folders) ==
    [i \in DOMAIN folders |-> <<"-","i","n","c","l","u","d","e">> \o folders[i]]

WorkspaceRootFolderAbsolute(workspace) ==
    root_configuration.root_folder \o Slash \o workspace.root_folder

\* the patterns handed to glob: the workspace folder with the pattern appended
AbsolutePatterns(workspace, patterns) ==
    [i \in DOMAIN patterns |-> WorkspaceRootFolderAbsolute(workspace) \o patterns[i]]

\* what stops the loops over the patterns: glob(..).unwrap() on a pattern
\* that does not compile, or p.unwrap() on a directory that cannot be listed
GlobFailure(p) ==
    IF PatternInvalid(p) THEN "unwrap on Err: PatternError"
    ELSE IF DirsListed(p) \cap input.denied # {} THEN "unwrap on Err: GlobError"
    ELSE "none"

FirstFailure(patterns) ==
    LET bad == {i \in DOMAIN patterns : GlobFailure(patterns[i]) # "none"}
    IN  IF bad = {} THEN "none"
        ELSE GlobFailure(patterns[CHOOSE i \in bad : \A k \in bad : i <= k])

\* the paths pushed for the patterns, pattern after pattern
RECURSIVE GlobAll(_)
GlobAll(patterns) ==
    IF patterns = << >> THEN << >>
    ELSE GlobPaths(Head(patterns)) \o GlobAll(Tail(patterns))

\* faulty variant: the excluded list is not consulted
CompiledFilesList_KeepsExcluded(candidates, excluded) == candidates

\* candidates that are not in the excluded list, in the candidates' order
CompiledFilesList(candidates, excluded) ==
    SelectSeq(candidates, LAMBDA f : f \notin Range(excluded))

\* faulty variant: every item put before what the list holds
PushAll_Front(list, items) == items \o list

\* Vec::push of every item, in order
PushAll(list, items) == list \o items

CompilerOf(compiled_file) ==
    IF \/ Contains(compiled_file, <<".","c","p","p">>)
       \/ Contains(compiled_file, <<".","c","x","x">>)
       \/ Contains(compiled_file, <<".","c","c">>)
    THEN root_configuration.cpp_compiler_path
    ELSE root_configuration.c_compiler_path

CompileCommand(compiled_file, workspace_compile_arguments) ==
    [ directory |-> root_configuration.root_folder,
      arguments |-> <<CompilerOf(compiled_file)>> \o workspace_compile_arguments,
      file |-> compiled_file ]

\* one iteration of the loop over the workspaces
from_workspace ==
    /\ pc = "from"
    /\ workspace_index < Len(workspace_configurations)
    /\ LET workspace == workspace_configurations[workspace_index + 1]
           include_folders ==
               Merge(root_configuration.include_folders, workspace.include_folders)
           compile_flags ==
               Merge(root_configuration.compile_flags, workspace.compile_flags)
           workspace_compile_arguments ==
               IncludeOptions(include_folders) \o compile_flags
           src_patterns ==
               Merge(root_configuration.src_pattern, workspace.src_pattern)
           exclude_patterns ==
               Merge(root_configuration.exclude_pattern, workspace.exclude_pattern)
           src_absolute == AbsolutePatterns(workspace, src_patterns)
           exclude_absolute == AbsolutePatterns(workspace, exclude_patterns)
           failure == FirstFailure(src_absolute \o exclude_absolute)
           candidates == GlobAll(src_absolute)
           compiled_files_list ==
               CompiledFilesList(candidates, GlobAll(exclude_absolute))
       IN  /\ workspace_entire_include_folders' = include_folders
           /\ workspace_entire_compile_flags' = compile_flags
           /\ workspace_entire_src_patterns' = src_patterns
           /\ workspace_entire_exclude_patterns' = exclude_patterns
           /\ workspace_index' = workspace_index + 1
           /\ IF failure # "none"
              THEN /\ Panic(failure)
                   /\ UNCHANGED << compiled_files_candidate_list,
                                   compile_commands, entry_workspace >>
              ELSE /\ compiled_files_candidate_list' = candidates
                   /\ compile_commands' = PushAll(compile_commands,
                          [i \in DOMAIN compiled_files_list |->
                              CompileCommand(compiled_files_list[i],
                                             workspace_compile_arguments)])
                   /\ entry_workspace' = PushAll(entry_workspace,
                          [i \in DOMAIN compiled_files_list |-> workspace_index + 1])
                   /\ UNCHANGED << pc, exit_code, stderr >>
    /\ UNCHANGED << input, contents, json_value, root_configuration,
                    workspace_configurations, output_file, run_result >>

-----------------------------------------------------------------------------
(* run: writing the result (lines 233-240), and main (lines 243-245)       *)

\* File::create("compile_commands.json")?
create_output_file ==
    /\ pc = "from"
    /\ workspace_index = Len(workspace_configurations)
    /\ \/ /\ output_file' = [created |-> TRUE, bytes |-> << >>, closed |-> FALSE]
          /\ pc' = "write"
          /\ UNCHANGED run_result
       \/ /\ run_result' = "Err"
          /\ pc' = "returned"
          /\ UNCHANGED output_file
    /\ UNCHANGED << input, contents, json_value, root_configuration,
                    workspace_configurations, workspace_index,
                    workspace_entire_include_folders, workspace_entire_compile_flags,
                    workspace_entire_src_patterns, workspace_entire_exclude_patterns,
                    compiled_files_candidate_list, compile_commands, entry_workspace,
                    exit_code, stderr >>

\* write_all(..)?: the whole serialized array, or an error after some of it
write_all ==
    /\ pc = "write"
    /\ \/ /\ output_file' =
                [created |-> TRUE, bytes |-> compile_commands, closed |-> TRUE]
          /\ run_result' = "Ok"
       \/ \E written \in 0..Len(compile_commands) :
              /\ output_file' =
                    [ created |-> TRUE,
                      bytes |-> SubSeq(compile_commands, 1, written),
                      closed |-> FALSE ]
              /\ run_result' = "Err"
    /\ pc' = "returned"
    /\ UNCHANGED << input, contents, json_value, root_configuration,
                    workspace_configurations, workspace_index,
                    workspace_entire_include_folders, workspace_entire_compile_flags,
                    workspace_entire_src_patterns, workspace_entire_exclude_patterns,
                    compiled_files_candidate_list, compile_commands, entry_workspace,
                    exit_code, stderr >>

\* main calls run() and drops what it returns
main ==
    /\ pc = "returned"
    /\ exit_code' = 0
    /\ pc' = "exit"
    /\ UNCHANGED << input, contents, json_value, root_configuration,
                    workspace_configurations, workspace_index,
                    workspace_entire_include_folders, workspace_entire_compile_flags,
                    workspace_entire_src_patterns, workspace_entire_exclude_patterns,
                    compiled_files_candidate_list, compile_commands, entry_workspace,
                    output_file, run_result, stderr >>

Next ==
    \/ open_project_config_file
    \/ build_project_config_json
    \/ update_root_config_from
    \/ update_workspace_config_from
    \/ from_workspace
    \/ create_output_file
    \/ write_all
    \/ main

Spec == Init /\ [][Next]_vars

-----------------------------------------------------------------------------
(* Properties                                                              *)

Finished == pc = "exit"
Panicked == exit_code = 101

\* the workspaces whose iteration ran to its end
Completed(w) ==
    /\ w \in 1..workspace_index
    /\ w = workspace_index => ~Panicked

EntriesOf(w) == {k \in DOMAIN compile_commands : entry_workspace[k] = w}

HasEntry(w, f) == \E k \in EntriesOf(w) : compile_commands[k].file = f

\* a path matches a pattern of a workspace when glob matches it against the
\* pattern appended to the workspace folder
MatchesSome(w, patterns, f) ==
    \E p \in patterns :
        GlobMatch(WorkspaceRootFolderAbsolute(workspace_configurations[w]) \o p, f)

Selected(w, f) ==
    /\ MatchesSome(w, Range(root_configuration.src_pattern)
                       \cup Range(workspace_configurations[w].src_pattern), f)
    /\ ~MatchesSome(w, Range(root_configuration.exclude_pattern)
                        \cup Range(workspace_configurations[w].exclude_pattern), f)

\* the file name is what follows the last separator, the extension what
\* follows the last dot of the file name
FileName(f) ==
    LET seps == {i \in DOMAIN f : f[i] = "/"}
    IN  IF seps = {} THEN f
        ELSE SubSeq(f, (CHOOSE i \in seps : \A k \in seps : k <= i) + 1, Len(f))

CppExtensions ==
    { <<"c","c">>, <<"C","C">>, <<"c","p","p">>, <<"C","P","P">>,
      <<"c","x","x">>, <<"C","X","X">> }

HasCppExtension(f) ==
    LET name == FileName(f)
        dots == {i \in DOMAIN name : name[i] = "."}
    IN  /\ dots # {}
        /\ SubSeq(name, (CHOOSE i \in dots : \A k \in dots : k <= i) + 1, Len(name))
               \in CppExtensions

\* C1: the first argument of every entry is the C++ compiler when the
\* extension of its file is one of cc, CC, cpp, CPP, cxx, CXX, and the C
\* compiler for every other file.
C1_CompilerByExtension ==
    \A k \in DOMAIN compile_commands :
        compile_commands[k].arguments[1] =
            IF HasCppExtension(compile_commands[k].file)
            THEN root_configuration.cpp_compiler_path
            ELSE root_configuration.c_compiler_path

\* C2: the arguments of every entry are the compiler, one -I<path> per
\* include directory (common, then workspace), the merged options (common,
\* then workspace), and last -c and the file.
C2_ArgumentsInFixedOrder ==
    \A k \in DOMAIN compile_commands :
        LET entry == compile_commands[k]
            workspace == workspace_configurations[entry_workspace[k]]
            folders == root_configuration.include_folders \o workspace.include_folders
        IN  /\ entry.arguments[1] \in { root_configuration.c_compiler_path,
                                         root_configuration.cpp_compiler_path }
            /\ entry.arguments =
                   <<entry.arguments[1]>>
                   \o [i \in DOMAIN folders |-> <<"-","I">> \o folders[i]]
                   \o root_configuration.compile_flags \o workspace.compile_flags
                   \o << <<"-","c">>, entry.file >>

\* C3: for every workspace the loop went through, a path has an entry if and
\* only if it matches a pattern of the common or workspace match list and no
\* pattern of the common or workspace ignore list.
C3_EntryIffMatchedAndNotIgnored ==
    \A w \in 1..workspace_index :
        Completed(w) =>
            /\ \A f \in Range(FILESYSTEM) : HasEntry(w, f) <=> Selected(w, f)
            /\ \A k \in EntriesOf(w) : compile_commands[k].file \in Range(FILESYSTEM)

\* a workspace with an entry, a path its ignore list removed, and a path no
\* match pattern matched
C3_Witness ==
    \E w \in 1..workspace_index :
        /\ Completed(w)
        /\ \E f, g, h \in Range(FILESYSTEM) :
              /\ HasEntry(w, f)
              /\ MatchesSome(w, Range(workspace_entire_src_patterns), g)
              /\ MatchesSome(w, Range(workspace_entire_exclude_patterns), g)
              /\ ~HasEntry(w, g)
              /\ Contains(h, WorkspaceRootFolderAbsolute(workspace_configurations[w]))
              /\ ~HasEntry(w, h)
              /\ ~MatchesSome(w, Range(workspace_entire_src_patterns), h)

IsCommonThenWorkspace(merged, common, workspace) ==
    /\ Len(merged) = Len(common) + Len(workspace)
    /\ \A i \in 1..Len(common) : merged[i] = common[i]
    /\ \A i \in 1..Len(workspace) : merged[Len(common) + i] = workspace[i]

\* C4: each of the four merged lists of a workspace is the common list
\* followed by the workspace list, order and duplicates kept.
C4_MergedListsCommonThenWorkspace ==
    workspace_index >= 1 =>
        LET workspace == workspace_configurations[workspace_index]
        IN  /\ IsCommonThenWorkspace(workspace_entire_src_patterns,
                    root_configuration.src_pattern, workspace.src_pattern)
            /\ IsCommonThenWorkspace(workspace_entire_exclude_patterns,
                    root_configuration.exclude_pattern, workspace.exclude_pattern)
            /\ IsCommonThenWorkspace(workspace_entire_include_folders,
                    root_configuration.include_folders, workspace.include_folders)
            /\ IsCommonThenWorkspace(workspace_entire_compile_flags,
                    root_configuration.compile_flags, workspace.compile_flags)

\* a workspace merged with a flag listed at both levels, and with common and
\* workspace patterns and folders that differ
C4_Witness ==
    /\ workspace_index >= 1
    /\ LET workspace == workspace_configurations[workspace_index]
       IN  /\ Range(root_configuration.compile_flags)
                  \cap Range(workspace.compile_flags) # {}
           /\ Len(workspace_entire_compile_flags) > 2
           /\ root_configuration.include_folders # << >>
           /\ workspace.include_folders # << >>
           /\ root_configuration.src_pattern # << >>
           /\ workspace.exclude_pattern # << >>

FilesOf(w) ==
    LET entries == SelectSeq([k \in DOMAIN compile_commands |-> k],
                             LAMBDA k : entry_workspace[k] = w)
    IN  [i \in DOMAIN entries |-> compile_commands[entries[i]].file]

\* C5: the entries of an earlier workspace precede those of a later one, and
\* the entries of one workspace are in the order in which its files were
\* found.
C5_EntriesInWorkspaceThenWalkOrder ==
    /\ Len(entry_workspace) = Len(compile_commands)
    /\ \A i, j \in DOMAIN entry_workspace :
           i < j => entry_workspace[i] <= entry_workspace[j]
    /\ Completed(workspace_index) =>
           FilesOf(workspace_index) =
               SelectSeq(compiled_files_candidate_list,
                         LAMBDA f : HasEntry(workspace_index, f))

\* two workspaces with entries, the second with several files
C5_Witness ==
    /\ workspace_index = 2
    /\ Completed(2)
    /\ EntriesOf(1) # {}
    /\ Cardinality(Range(FilesOf(2))) >= 2

OptionalList(opt) == IF opt = None THEN << >> ELSE opt[1]

\* the configuration file cannot be read or parsed, has no workspace list,
\* or gives a workspace a match or ignore pattern that does not compile
ConfigurationError ==
    \/ ~input.readable
    \/ ~input.text.ok
    \/ input.text.value.workspaces = None
    \/ LET document == input.text.value
       IN  \E w \in DOMAIN document.workspaces[1] :
               \E p \in Range(OptionalList(document.project_src_pattern))
                        \cup Range(OptionalList(document.project_exclude_pattern))
                        \cup Range(OptionalList(document.workspaces[1][w].src_pattern))
                        \cup Range(OptionalList(document.workspaces[1][w].exclude_pattern)) :
                   PatternInvalid(Unescape(p))

C7_WriteErrorExitsNonZero ==
    (Finished /\ run_result = "Err") => (exit_code # 0 /\ stderr # << >>)

\* C8: after a run the output file is as it was before, or holds the whole
\* serialized result.
C8_OutputWrittenWhollyOrNotAtAll ==
    Finished =>
        \/ output_file = Untouched
        \/ output_file.closed /\ output_file.bytes = compile_commands

UnderDenied(f) ==
    \E d \in input.denied : Contains(f, d \o Slash) \/ f = d

\* C9: a directory that cannot be listed does not abort the run: every
\* workspace is gone through and every selected file outside that directory
\* has its entry.
C9_ReadErrorDoesNotAbort ==
    (Finished /\ input.denied # {} /\ ~ConfigurationError) =>
        /\ ~Panicked
        /\ \A w \in DOMAIN workspace_configurations :
               \A f \in Range(FILESYSTEM) :
                   (Selected(w, f) /\ ~UnderDenied(f)) => HasEntry(w, f)

\* C10: no file has two entries in the same workspace.
C10_OneEntryPerFileInWorkspace ==
    \A i, j \in DOMAIN compile_commands :
        (i < j /\ entry_workspace[i] = entry_workspace[j]) =>
            compile_commands[i].file # compile_commands[j].file

=============================================================================
